---- MODULE Spec2Model ----
(***************************************************************************)
(* A model of autocomplete.go: the word-frequency index built at package   *)
(* initialisation (initCounts -> parseFile -> countWords), the completion  *)
(* engine (complete, firstN) and the HTTP handler (respond) that serves    *)
(* prefix queries from the shared index.                                   *)
(*                                                                         *)
(* A Go string is modelled as a sequence of one-character strings, so the  *)
(* empty Go string "" is the empty sequence << >>.                         *)
(***************************************************************************)
EXTENDS Integers, Sequences, FiniteSets, TLC

VARIABLES
    phase,      \* position of the process: package initialisation, then main
    args,       \* len(os.Args)
    file,       \* what ioutil.ReadFile finds at os.Args[1]: [ok, text]
    buf,        \* parseFile's fileAsString / fileAlpha
    words,      \* parseFile's fileAsWords
    countMap,   \* the package-level frequency map
    builds,     \* number of assignments made to countMap
    handlers,   \* one record per request goroutine running respond; its field
                \* engine records that the goroutine has called complete
    calls,      \* harness: the calls of complete made so far, [scan, matches]
    qPrefix,    \* harness: the prefix the calls of complete were made with
    top         \* harness: the last call of firstN, [n, in, out]

vars == <<phase, args, file, buf, words, countMap, builds, handlers,
          calls, qPrefix, top>>

-----------------------------------------------------------------------------
(* Bounds of the model *)

MaxTextLen == 4     \* longest corpus text of SpecIndex
MaxLimit == 3       \* largest n handed to firstN in SpecComplete
MaxHandlers == 2    \* request goroutines of Spec
MaxTokens == 4      \* most words of a corpus of SpecComplete

(* Program constants *)

Top == 25           \* respond: firstN(matches, 25)
BlockSize == 20     \* sort.SliceStable: insertion-sorted block size

-----------------------------------------------------------------------------
(* Characters *)

LowerCase == {"a", "b"}
UpperCase == {"A", "B"}
Whitespace == {" "}
Punctuation == {"!"}
Alphabet == LowerCase \cup UpperCase \cup Whitespace \cup Punctuation

Str(n, chars) == UNION {[1..k -> chars] : k \in 0..n}

Min(a, b) == IF a < b THEN a ELSE b

\* the order in which `range` visits a map is unspecified: any permutation
ScanOrders(S) ==
    {s \in [1..Cardinality(S) -> S] : \A i, j \in DOMAIN s : i # j => s[i] # s[j]}

-----------------------------------------------------------------------------
(* parseFile, lines 79-92 *)

\* regexp [^a-zA-Z\s] replaced by "": every other character is dropped
IsAlphaOrSpace(c) == c \in LowerCase \cup UpperCase \cup Whitespace
ReplaceNonAlphabetic(s) == SelectSeq(s, IsAlphaOrSpace)

\* strings.ToLower
LowerOf(c) == CASE c = "A" -> "a" [] c = "B" -> "b" [] OTHER -> c
ToLower(s) == [i \in 1..Len(s) |-> LowerOf(s[i])]

\* regexp \s+ FindAllStringIndex: the maximal runs of whitespace, leftmost
\* first, as 0-based half-open pairs <<start, end>>
RECURSIVE RunEnd(_, _)
RunEnd(s, i) == IF i < Len(s) /\ s[i + 1] \in Whitespace THEN RunEnd(s, i + 1) ELSE i
RECURSIVE FindAllWhitespace(_, _)
FindAllWhitespace(s, i) ==
    IF i >= Len(s) THEN << >>
    ELSE IF s[i + 1] \in Whitespace
         THEN <<(<<i, RunEnd(s, i)>>)>> \o FindAllWhitespace(s, RunEnd(s, i))
         ELSE FindAllWhitespace(s, i + 1)

\* regexp.Split(s, -1): the loop over the matches, then the tail
RECURSIVE SplitLoop(_, _, _, _, _)
SplitLoop(s, matches, beg, end, strings) ==
    IF matches = << >>
    THEN IF end # Len(s) THEN Append(strings, SubSeq(s, beg + 1, Len(s))) ELSE strings
    ELSE LET match == Head(matches)
             end2 == match[1]
         IN SplitLoop(s, Tail(matches), match[2], end2,
                      IF match[2] # 0
                      THEN Append(strings, SubSeq(s, beg + 1, end2))
                      ELSE strings)
Split(s) ==
    IF Len(s) = 0 THEN << << >> >>
    ELSE SplitLoop(s, FindAllWhitespace(s, 0), 0, 0, << >>)

parseWords(text) == Split(ToLower(ReplaceNonAlphabetic(text)))

-----------------------------------------------------------------------------
(* countWords, lines 38-55 *)

EmptyMap == [w \in {} |-> 0]

Put(m, k, v) == [w \in DOMAIN m \cup {k} |-> IF w = k THEN v ELSE m[w]]

\* a variant of countStep that stores count instead of count + 1
countStepNoIncrement(frequencyMap, word) ==
    IF word \in DOMAIN frequencyMap
    THEN Put(frequencyMap, word, frequencyMap[word])
    ELSE Put(frequencyMap, word, 1)

countStep(frequencyMap, word) ==
    IF word \in DOMAIN frequencyMap
    THEN Put(frequencyMap, word, frequencyMap[word] + 1)
    ELSE Put(frequencyMap, word, 1)

RECURSIVE countLoop(_, _)
countLoop(frequencyMap, ws) ==
    IF ws = << >> THEN frequencyMap
    ELSE countLoop(countStep(frequencyMap, Head(ws)), Tail(ws))

countWords(ws) == countLoop(EmptyMap, ws)

-----------------------------------------------------------------------------
(* complete, lines 112-136 *)

\* a variant of HasPrefix that compares without regard to case
HasPrefixFold(s, prefix) ==
    Len(s) >= Len(prefix) /\ ToLower(SubSeq(s, 1, Len(prefix))) = ToLower(prefix)

\* strings.HasPrefix: len(s) >= len(prefix) && s[:len(prefix)] == prefix
HasPrefix(s, prefix) ==
    Len(s) >= Len(prefix) /\ SubSeq(s, 1, Len(prefix)) = prefix

\* the body of the range loop, lines 118-120
visit(wordCounts, word, count, prefix) ==
    IF HasPrefix(word, prefix)
    THEN Append(wordCounts, [Word |-> word, Count |-> count])
    ELSE wordCounts

\* the range loop, lines 117-121, visiting the keys in the order `order`
RECURSIVE scan(_, _, _, _)
scan(wordCounts, order, prefix, frequencies) ==
    IF order = << >> THEN wordCounts
    ELSE scan(visit(wordCounts, Head(order), frequencies[Head(order)], prefix),
              Tail(order), prefix, frequencies)

\* a variant of less without the negation: ascending by count
lessAscending(data, i, j) == data[i + 1].Count < data[j + 1].Count

\* the less function handed to sort.SliceStable, line 125 (i, j 0-based)
less(data, i, j) == ~(data[i + 1].Count < data[j + 1].Count)

swap(data, i, j) ==
    [data EXCEPT ![i + 1] = data[j + 1], ![j + 1] = data[i + 1]]

\* sort.insertionSort: the inner loop, then the outer loop over i in a+1..b-1
RECURSIVE insertDown(_, _, _)
insertDown(data, a, j) ==
    IF j > a /\ less(data, j, j - 1)
    THEN insertDown(swap(data, j, j - 1), a, j - 1)
    ELSE data
RECURSIVE insertionSort(_, _, _, _)
insertionSort(data, a, b, i) ==
    IF i < b THEN insertionSort(insertDown(data, a, i), a, b, i + 1) ELSE data

\* sort.rotate: data[a:m] and data[m:b] change places
rotate(data, a, m, b) ==
    SubSeq(data, 1, a) \o SubSeq(data, m + 1, b) \o SubSeq(data, a + 1, m)
        \o SubSeq(data, b + 1, Len(data))

\* the three binary searches of sort.symMerge
RECURSIVE searchRight(_, _, _, _)
searchRight(data, a, i, j) ==
    IF i < j
    THEN LET h == (i + j) \div 2
         IN IF less(data, h, a) THEN searchRight(data, a, h + 1, j)
            ELSE searchRight(data, a, i, h)
    ELSE i
RECURSIVE searchLeft(_, _, _, _)
searchLeft(data, m, i, j) ==
    IF i < j
    THEN LET h == (i + j) \div 2
         IN IF ~less(data, m, h) THEN searchLeft(data, m, h + 1, j)
            ELSE searchLeft(data, m, i, h)
    ELSE i
RECURSIVE searchSym(_, _, _, _)
searchSym(data, p, start, r) ==
    IF start < r
    THEN LET c == (start + r) \div 2
         IN IF ~less(data, p - c, c) THEN searchSym(data, p, c + 1, r)
            ELSE searchSym(data, p, start, c)
    ELSE start

\* sort.symMerge: merges the sorted data[a:m] and data[m:b]
RECURSIVE symMerge(_, _, _, _)
symMerge(data, a, m, b) ==
    IF m - a = 1
    THEN rotate(data, a, a + 1, searchRight(data, a, m, b))
    ELSE IF b - m = 1
    THEN rotate(data, searchLeft(data, m, a, m), m, m + 1)
    ELSE LET mid == (a + b) \div 2
             n == mid + m
             start0 == IF m > mid THEN n - b ELSE a
             r == IF m > mid THEN mid ELSE m
             start == searchSym(data, n - 1, start0, r)
             end == n - start
             d1 == IF start < m /\ m < end THEN rotate(data, start, m, end) ELSE data
             d2 == IF a < start /\ start < mid THEN symMerge(d1, a, start, mid) ELSE d1
         IN IF mid < end /\ end < b THEN symMerge(d2, mid, end, b) ELSE d2

\* sort.stable: insertion-sort blocks of blockSize, then merge them pairwise
RECURSIVE sortBlocks(_, _, _, _)
sortBlocks(data, a, b, blockSize) ==
    IF b <= Len(data)
    THEN sortBlocks(insertionSort(data, a, b, a + 1), b, b + blockSize, blockSize)
    ELSE insertionSort(data, a, Len(data), a + 1)
RECURSIVE mergePass(_, _, _, _)
mergePass(data, a, b, blockSize) ==
    IF b <= Len(data)
    THEN mergePass(symMerge(data, a, a + blockSize, b), b, b + 2 * blockSize, blockSize)
    ELSE IF a + blockSize < Len(data)
         THEN symMerge(data, a, a + blockSize, Len(data))
         ELSE data
RECURSIVE mergeBlocks(_, _)
mergeBlocks(data, blockSize) ==
    IF blockSize < Len(data)
    THEN mergeBlocks(mergePass(data, 0, 2 * blockSize, blockSize), 2 * blockSize)
    ELSE data
stable(data, blockSize) ==
    mergeBlocks(sortBlocks(data, 0, blockSize, blockSize), blockSize)

\* sort.SliceStable(wordCounts, less), lines 124-126
SliceStable(wordCounts) == stable(wordCounts, BlockSize)

\* lines 130-133
wordsOf(wordCounts) == [i \in 1..Len(wordCounts) |-> wordCounts[i].Word]

\* lines 123-135: what complete returns once the range loop has filled wordCounts
sortedMatches(wordCounts) == wordsOf(SliceStable(wordCounts))

\* complete(prefix, frequencies) when `range` visits the keys in the order `order`
complete(prefix, frequencies, order) ==
    sortedMatches(scan(<< >>, order, prefix, frequencies))

-----------------------------------------------------------------------------
(* firstN, lines 150-157 *)

\* a variant of firstN whose slice is one element too long
firstNOffByOne(ws, n) == IF n < Len(ws) THEN SubSeq(ws, 1, n + 1) ELSE ws

firstN(ws, n) == IF n < Len(ws) THEN SubSeq(ws, 1, n) ELSE ws

-----------------------------------------------------------------------------
(* initCounts and the package initialisation, lines 218-236; main, 238-243 *)

NoFile == [ok |-> FALSE, text |-> << >>]

\* the state before package initialisation runs, for a file system holding
\* either no readable file at os.Args[1] or one of `texts`
InitWith(texts) ==
    /\ phase = "init"
    /\ args \in {1, 2}
    /\ file \in {NoFile} \cup {[ok |-> TRUE, text |-> t] : t \in texts}
    /\ buf = << >>
    /\ words = << >>
    /\ countMap = EmptyMap
    /\ builds = 0
    /\ handlers = [h \in 1..MaxHandlers |->
                     [pc |-> "idle", req |-> [method |-> "", path |-> "", term |-> << >>, uriErr |-> FALSE],
                      todo |-> {}, wordCounts |-> << >>, engine |-> FALSE,
                      status |-> 0, body |-> << >>]]
    /\ calls = << >>
    /\ qPrefix = << >>
    /\ top = [n |-> 0, in |-> << >>, out |-> << >>, done |-> FALSE]

\* lines 220-227: os.Exit(1) without a file path argument
CheckArgs ==
    /\ phase = "init"
    /\ phase' = IF args < 2 THEN "exited" ELSE "argsOk"
    /\ UNCHANGED <<args, file, buf, words, countMap, builds, handlers, calls, qPrefix, top>>

\* lines 72-77: panic when the file cannot be read
ReadFile ==
    /\ phase = "argsOk"
    /\ IF file.ok
       THEN phase' = "read" /\ buf' = file.text
       ELSE phase' = "panicked" /\ buf' = buf
    /\ UNCHANGED <<args, file, words, countMap, builds, handlers, calls, qPrefix, top>>

\* lines 80-82
FilterFile ==
    /\ phase = "read"
    /\ buf' = ReplaceNonAlphabetic(buf)
    /\ phase' = "filtered"
    /\ UNCHANGED <<args, file, words, countMap, builds, handlers, calls, qPrefix, top>>

\* line 85
LowerFile ==
    /\ phase = "filtered"
    /\ buf' = ToLower(buf)
    /\ phase' = "lowered"
    /\ UNCHANGED <<args, file, words, countMap, builds, handlers, calls, qPrefix, top>>

\* lines 88-92
SplitFile ==
    /\ phase = "lowered"
    /\ words' = Split(buf)
    /\ phase' = "parsed"
    /\ UNCHANGED <<args, file, buf, countMap, builds, handlers, calls, qPrefix, top>>

\* lines 232 and 236: countMap = countWords(fileAsWords)
BuildIndex ==
    /\ phase = "parsed"
    /\ countMap' = countWords(words)
    /\ builds' = builds + 1
    /\ phase' = "built"
    /\ UNCHANGED <<args, file, buf, words, handlers, calls, qPrefix, top>>

\* lines 238-241: main registers respond and starts serving
ListenAndServe ==
    /\ phase = "built"
    /\ phase' = "serving"
    /\ UNCHANGED <<args, file, buf, words, countMap, builds, handlers, calls, qPrefix, top>>

-----------------------------------------------------------------------------
(* respond, lines 171-210: one goroutine per request *)

Methods == {"GET", "POST"}
Paths == {"/autocomplete", "/"}
Terms == {<< >>, <<"a">>}
\* uriErr: url.Parse(r.RequestURI) returns an error
Requests == [method : Methods, path : Paths, term : Terms, uriErr : BOOLEAN]

\* lines 181-185
validRequest(req) ==
    /\ req.method = "GET"
    /\ req.path = "/autocomplete"
    /\ req.term # << >>

\* json.Marshal of a []string: never an error
RECURSIVE jsonItems(_)
jsonItems(ws) ==
    IF ws = << >> THEN << >>
    ELSE (IF Len(ws) > 1 THEN <<"\"">> \o Head(ws) \o <<"\"", ",">>
          ELSE <<"\"">> \o Head(ws) \o <<"\"">>) \o jsonItems(Tail(ws))
Marshal(ws) == [err |-> FALSE, json |-> <<"[">> \o jsonItems(ws) \o <<"]">>]

UnsupportedBody == <<"{\"message\": \"Unsupported request\"}">>
InternalErrorBody == <<"{\"message\": \"Internal service error\"}">>
MatchesBody(json) == <<"{\"matches\":">> \o json \o <<"}">>

\* a variant of Accept for a server that listens before the index is built
AcceptBeforeBuilt(h) ==
    /\ phase \notin {"exited", "panicked"}
    /\ handlers[h].pc = "idle"
    /\ \E req \in Requests :
          handlers' = [handlers EXCEPT ![h].pc = "entered", ![h].req = req]
    /\ UNCHANGED <<phase, args, file, buf, words, countMap, builds, calls, qPrefix, top>>

\* the server hands a request to a goroutine running respond
Accept(h) ==
    /\ phase = "serving"
    /\ handlers[h].pc = "idle"
    /\ \E req \in Requests :
          handlers' = [handlers EXCEPT ![h].pc = "entered", ![h].req = req]
    /\ UNCHANGED <<phase, args, file, buf, words, countMap, builds, calls, qPrefix, top>>

\* lines 175-189 and 205-209: parse the URI, validate, answer an invalid request
Validate(h) ==
    /\ handlers[h].pc = "entered"
    /\ LET req == handlers[h].req
       IN IF req.uriErr
          THEN handlers' = [handlers EXCEPT ![h].pc = "panicked"]
          ELSE IF validRequest(req)
          THEN handlers' = [handlers EXCEPT ![h].pc = "scan",
                                            ![h].engine = TRUE,
                                            ![h].todo = DOMAIN countMap]
          ELSE handlers' = [handlers EXCEPT ![h].pc = "done",
                                            ![h].status = 400,
                                            ![h].body = UnsupportedBody]
    /\ UNCHANGED <<phase, args, file, buf, words, countMap, builds, calls, qPrefix, top>>

\* a variant of ScanStep that counts the visit in the shared map
ScanStepWriting(h) ==
    /\ handlers[h].pc = "scan"
    /\ \E word \in handlers[h].todo :
          /\ handlers' = [handlers EXCEPT
                 ![h].todo = @ \ {word},
                 ![h].wordCounts = visit(@, word, countMap[word], handlers[h].req.term)]
          /\ countMap' = Put(countMap, word, countMap[word] + 1)
    /\ UNCHANGED <<phase, args, file, buf, words, builds, calls, qPrefix, top>>

\* lines 117-121: one iteration of the range loop of complete
ScanStep(h) ==
    /\ handlers[h].pc = "scan"
    /\ \E word \in handlers[h].todo :
          handlers' = [handlers EXCEPT
              ![h].todo = @ \ {word},
              ![h].wordCounts = visit(@, word, countMap[word], handlers[h].req.term)]
    /\ UNCHANGED <<phase, args, file, buf, words, countMap, builds, calls, qPrefix, top>>

\* lines 123-135 and 192-204: sort, take the first 25, serialise, answer
Respond(h) ==
    /\ handlers[h].pc = "scan"
    /\ handlers[h].todo = {}
    /\ LET matches == sortedMatches(handlers[h].wordCounts)
           top25 == firstN(matches, Top)
           m == Marshal(top25)
       IN handlers' = [handlers EXCEPT
              ![h].pc = "done",
              ![h].status = IF m.err THEN 500 ELSE 200,
              ![h].body = IF m.err THEN InternalErrorBody ELSE MatchesBody(m.json)]
    /\ UNCHANGED <<phase, args, file, buf, words, countMap, builds, calls, qPrefix, top>>

-----------------------------------------------------------------------------
(* The process *)

Corpora ==
    { << >>,
      <<"b", " ", "a">>,
      <<"a", " ", "b", " ", "A", "!">>,
      <<" ", "a", "b", " ", "a">> }

Init == InitWith(Corpora)

Startup ==
    \/ CheckArgs
    \/ ReadFile
    \/ FilterFile
    \/ LowerFile
    \/ SplitFile
    \/ BuildIndex
    \/ ListenAndServe

Serve(h) ==
    \/ Accept(h)
    \/ Validate(h)
    \/ ScanStep(h)
    \/ Respond(h)

Next ==
    \/ Startup
    \/ \E h \in 1..MaxHandlers : Serve(h)

Spec == Init /\ [][Next]_vars

-----------------------------------------------------------------------------
(* The index of every corpus text up to MaxTextLen characters *)

InitIndex == InitWith(Str(MaxTextLen, Alphabet))

SpecIndex == InitIndex /\ [][Startup]_vars

-----------------------------------------------------------------------------
(* The completion engine, called on the index of a corpus of up to         *)
(* MaxTokens words: complete twice with the same prefix, firstN with any n *)

CorpusWords == {<<"a">>, <<"a", "b">>, <<"b">>}
Prefixes == {<< >>, <<"a">>, <<"a", "b">>, <<"A">>}

RECURSIVE Join(_)
Join(ws) ==
    IF ws = << >> THEN << >>
    ELSE IF Len(ws) = 1 THEN Head(ws)
    ELSE Head(ws) \o <<" ">> \o Join(Tail(ws))

InitComplete == InitWith({Join(ws) : ws \in Str(MaxTokens, CorpusWords)})

\* complete(prefix, countMap), lines 112-136
Complete ==
    /\ phase = "serving"
    /\ calls = << >>
    /\ \E prefix \in Prefixes, order \in ScanOrders(DOMAIN countMap) :
          /\ qPrefix' = prefix
          /\ calls' = <<[scan |-> order, matches |-> complete(prefix, countMap, order)]>>
    /\ UNCHANGED <<phase, args, file, buf, words, countMap, builds, handlers, top>>

\* complete(prefix, countMap) once more, with the same arguments
CompleteAgain ==
    /\ Len(calls) = 1
    /\ \E order \in ScanOrders(DOMAIN countMap) :
          calls' = Append(calls, [scan |-> order,
                                  matches |-> complete(qPrefix, countMap, order)])
    /\ UNCHANGED <<phase, args, file, buf, words, countMap, builds, handlers, qPrefix, top>>

\* firstN(matches, n), lines 150-157, on what the last call of complete returned
FirstN ==
    /\ calls # << >>
    /\ \E n \in 0..MaxLimit :
          LET matches == calls[Len(calls)].matches
          IN top' = [n |-> n, in |-> matches, out |-> firstN(matches, n), done |-> TRUE]
    /\ UNCHANGED <<phase, args, file, buf, words, countMap, builds, handlers, calls, qPrefix>>

NextComplete ==
    \/ Startup
    \/ Complete
    \/ CompleteAgain
    \/ FirstN

SpecComplete == InitComplete /\ [][NextComplete]_vars

-----------------------------------------------------------------------------
(* Vocabulary of the properties, stated without the operators of the model *)

\* w starts with p as a literal, case-sensitive character sequence
StartsWith(w, p) == Len(p) <= Len(w) /\ \A i \in 1..Len(p) : w[i] = p[i]

\* the keys of index that start with p
MatchingKeys(index, p) == {k \in DOMAIN index : StartsWith(k, p)}

Elements(s) == {s[i] : i \in 1..Len(s)}

Occurrences(s, x) == Cardinality({i \in 1..Len(s) : s[i] = x})

\* the position of x in the sequence s of distinct elements
PositionIn(s, x) == CHOOSE i \in 1..Len(s) : s[i] = x

RECURSIVE SumOver(_, _)
SumOver(f, S) ==
    IF S = {} THEN 0
    ELSE LET x == CHOOSE y \in S : TRUE IN f[x] + SumOver(f, S \ {x})

IsToken(w) == w # << >> /\ \A i \in 1..Len(w) : w[i] \in LowerCase

Parsed == phase \in {"parsed", "built", "serving"}
Built == phase \in {"built", "serving"}

-----------------------------------------------------------------------------
(* C1: a completion query (complete, then firstN with n >= 0) returns      *)
(* exactly min(m, n) elements, m being the number of keys of the index     *)
(* that start with the prefix; so never more than n, and none for n = 0.   *)
C1_LengthIsMin ==
    top.done =>
        /\ Len(top.out) = Min(Cardinality(MatchingKeys(countMap, qPrefix)), top.n)
        /\ Len(top.out) <= top.n
        /\ (top.n = 0 => top.out = << >>)

\* a query that firstN truncates: more matches than the limit n >= 1
C1_Witness ==
    /\ top.done
    /\ top.n >= 1
    /\ Cardinality(MatchingKeys(countMap, qPrefix)) > top.n
    /\ Len(top.out) = top.n

(* C2: every element complete returns is a key of the index that starts    *)
(* with the prefix as a literal case-sensitive character sequence, no key  *)
(* is returned twice, and the empty prefix matches every key.              *)
C2_Sound ==
    \A c \in 1..Len(calls) :
        LET m == calls[c].matches
        IN /\ \A i \in 1..Len(m) : m[i] \in DOMAIN countMap /\ StartsWith(m[i], qPrefix)
           /\ \A i, j \in 1..Len(m) : i # j => m[i] # m[j]
           /\ qPrefix = << >> => Elements(m) = DOMAIN countMap

\* complete has returned two keys for the prefix "a" from an index that
\* also holds a key not starting with it
C2_Witness ==
    /\ Len(calls) >= 1
    /\ qPrefix = <<"a">>
    /\ Len(calls[1].matches) >= 2
    /\ \E k \in DOMAIN countMap : ~StartsWith(k, qPrefix)

(* C3: the result of a completion query is ordered by count descending,    *)
(* and every matching key left out of it has a count <= the count of every *)
(* returned element: the result is the n most frequent matches.            *)
C3_Ranked ==
    top.done =>
        /\ \A i, j \in 1..Len(top.out) :
              i < j => countMap[top.out[i]] >= countMap[top.out[j]]
        /\ \A k \in MatchingKeys(countMap, qPrefix) \ Elements(top.out) :
              \A i \in 1..Len(top.out) : countMap[k] <= countMap[top.out[i]]

\* a truncated result of two elements with different counts
C3_Witness ==
    /\ top.done
    /\ Len(top.out) >= 2
    /\ countMap[top.out[1]] > countMap[top.out[2]]
    /\ MatchingKeys(countMap, qPrefix) \ Elements(top.out) # {}

(* C4: two calls of complete with the same prefix on the same unmodified   *)
(* index return identical sequences, also when matching keys have equal    *)
(* counts.                                                                 *)
C4_Deterministic ==
    Len(calls) = 2 => calls[1].matches = calls[2].matches

(* C9: in the result of complete, two matching entries with equal counts   *)
(* stand in the order in which the scan of the index encountered them.     *)
C9_StableInScanOrder ==
    \A c \in 1..Len(calls) :
        LET m == calls[c].matches
            order == calls[c].scan
        IN \A i, j \in 1..Len(m) :
              (i < j /\ countMap[m[i]] = countMap[m[j]])
                  => PositionIn(order, m[i]) < PositionIn(order, m[j])

(* C5: tokenization produces no empty string: every token is a non-empty   *)
(* sequence of characters a-z, and an empty or all-punctuation text yields *)
(* the empty sequence.                                                     *)
C5_NoEmptyToken ==
    Parsed =>
        /\ \A i \in 1..Len(words) : IsToken(words[i])
        /\ (\A i \in 1..Len(file.text) : file.text[i] \in Punctuation) => words = << >>

(* C6: countWords(T) has exactly the distinct tokens of T as its keys,     *)
(* maps each to its number of occurrences in T (so to a count >= 1), and   *)
(* its counts sum to len(T).                                               *)
C6_Counts ==
    Built =>
        /\ DOMAIN countMap = Elements(words)
        /\ \A k \in DOMAIN countMap :
              countMap[k] = Occurrences(words, k) /\ countMap[k] >= 1
        /\ SumOver(countMap, DOMAIN countMap) = Len(words)

\* an index of two keys or more, one of them counted twice or more
C6_Witness ==
    /\ Built
    /\ Cardinality(DOMAIN countMap) >= 2
    /\ \E k \in DOMAIN countMap : countMap[k] >= 2

(* C7: once the index is built no step of a request handler writes it:     *)
(* while the server serves, or any handler runs, every step leaves the     *)
(* index unchanged, so no read of the index is concurrent with a write.    *)
C7_IndexReadOnly ==
    [][(phase = "serving" \/ \E h \in 1..MaxHandlers : handlers[h].pc # "idle")
          => (countMap' = countMap /\ builds' = builds)]_vars

\* two handlers are both in the middle of their scan of the index
C7_Witness ==
    \E g, h \in 1..MaxHandlers :
        /\ g # h
        /\ handlers[g].pc = "scan" /\ handlers[g].todo # {} /\ handlers[g].wordCounts # << >>
        /\ handlers[h].pc = "scan" /\ handlers[h].todo # {} /\ handlers[h].wordCounts # << >>

(* C8: a finished request got status OK and the body {"matches": [...]} of *)
(* the first 25 elements of complete(term, index) exactly when its method  *)
(* is GET, its path /autocomplete and its term non-empty; every other      *)
(* request got the client-error status and the body {"message":            *)
(* "Unsupported request"}, without the completion engine being invoked.    *)
C8_RespondContract ==
    \A h \in 1..MaxHandlers :
        LET r == handlers[h]
        IN r.pc \in {"done", "panicked"} =>
              IF r.req.method = "GET" /\ r.req.path = "/autocomplete" /\ r.req.term # << >>
              THEN /\ r.status = 200
                   /\ \E order \in ScanOrders(DOMAIN countMap) :
                         r.body = <<"{\"matches\":">>
                                   \o Marshal(firstN(complete(r.req.term, countMap, order), 25)).json
                                   \o <<"}">>
              ELSE /\ r.status = 400
                   /\ r.body = <<"{\"message\": \"Unsupported request\"}">>
                   /\ ~r.engine

(* C10: the index is built exactly once and before the server serves: no   *)
(* request is handled before the index is fully built, and when the corpus *)
(* cannot be obtained (no path argument, unreadable file) startup          *)
(* terminates and no request is ever handled.                              *)
C10_BuiltBeforeServing ==
    /\ builds <= 1
    /\ (\E h \in 1..MaxHandlers : handlers[h].pc # "idle") => phase = "serving"
    /\ phase = "serving" =>
          /\ builds = 1
          /\ args >= 2 /\ file.ok
          /\ DOMAIN countMap = Elements(words)
          /\ \A k \in DOMAIN countMap : countMap[k] = Occurrences(words, k)
    /\ args < 2 => phase \in {"init", "exited"}
    /\ (args >= 2 /\ ~file.ok) => phase \in {"init", "argsOk", "panicked"}
    /\ phase \in {"exited", "panicked"} =>
          builds = 0 /\ \A h \in 1..MaxHandlers : handlers[h].pc = "idle"

\* a request has been answered with status OK by the serving process
C10_Witness ==
    /\ phase = "serving"
    /\ \E h \in 1..MaxHandlers : handlers[h].pc = "done" /\ handlers[h].status = 200

====
